---- MODULE Spec2Model ----
(***************************************************************************)
(* Model of the Arrow Flight CLI client (cli-client-node):                 *)
(*   - FlightClient (src/src/flight-client.js): getFlightInfo, doGet,      *)
(*     queryDataset, checkHealth;                                          *)
(*   - LoadTester (load-tester.js): singleRequest, runLoadTest,            *)
(*     calculateMetrics;                                                   *)
(*   - the two commands of the entry point (index.js): cmdQuery and        *)
(*     cmdLoadTest.                                                        *)
(*                                                                         *)
(* Node.js runs one callback at a time.  A callback of the network layer   *)
(* (a macrotask) runs only when the microtask queue is empty; every        *)
(* continuation of an `await` and every promise reaction is a microtask,   *)
(* run in FIFO order.  The model keeps the microtask queue explicitly      *)
(* (mq) and has one action per callback, continuation and loop iteration.  *)
(***************************************************************************)
EXTENDS Integers, Sequences, FiniteSets, TLC

(***************************************************************************)
(* Bounds of the model.                                                    *)
(***************************************************************************)
MaxRequests == 3      \* largest totalRequests
MaxConcurrency == 2   \* largest concurrency cap
MaxTenants == 2       \* longest tenant list
MaxChunks == 2        \* most 'data' events on the DoGet stream of the query command
MaxClock == 2         \* last value of the monotonic clock in the query command
MaxLoadChunks == 1    \* most 'data' events on one DoGet stream of a load test
MaxLoadClock == 1     \* last value of the monotonic clock in a load test
MaxFlights == 1       \* most 'data' events on the ListFlights stream
MaxLiveRequests == 2  \* largest totalRequests of the runs checked for termination
MaxElapsed == 1       \* longest time between two clock readings of one callback

(***************************************************************************)
(* Values.                                                                 *)
(***************************************************************************)
\* tenants[i % tenants.length] of an empty array is undefined in JavaScript
Undefined == 0
\* the tenant list of length n: tenant_001 .. tenant_00n, written 1 .. n
TenantList(n) == [j \in 1..n |-> j]

\* flightData messages of a DoGet stream: the length of data_body, whether
\* tableFromIPC decodes it, and the numRows of the decoded table
EmptyChunk == [len |-> 0, ok |-> TRUE, numRows |-> 0]
GoodChunk == [len |-> 2, ok |-> TRUE, numRows |-> 1]
BadChunk == [len |-> 1, ok |-> FALSE, numRows |-> 0]
ChunkKinds == {EmptyChunk, GoodChunk, BadChunk}

\* replies of the GetFlightInfo callback: an error, a FlightInfo whose
\* endpoint list is empty, a FlightInfo with an endpoint and its ticket
InfoReplies == {"err", "empty", "ok"}

\* messages of the errors (err.message)
MsgNoEndpoints == "No endpoints returned"
MsgTransport == "14 UNAVAILABLE"
MsgStream == "13 INTERNAL"
MsgDecode == "Invalid Arrow IPC"
MsgBadTenant == "The first argument must be of type string"

VARIABLES
    cmd,            \* the command of the entry point: "query" or "load-test"
    mainPc,         \* position of the command's function
    now,            \* performance.now()
    mq,             \* the microtask queue
    totalRequests,  \* argument of runLoadTest
    tenants,        \* argument of runLoadTest
    concurrency,    \* this.concurrency
    lpc,            \* position of runLoadTest
    i,              \* loop variable of runLoadTest
    pending,        \* the Set `pending`, in insertion order
    results,        \* this.results
    req,            \* per request: the state of its singleRequest/queryDataset
    reactions,      \* per request: reactions registered on its wrapper promise
    race,           \* Promise.race: number of races made, and whether the last is resolved
    allLeft,        \* Promise.all: promises of allPromises not fulfilled yet
    startTime,      \* startTime of runLoadTest
    metrics,        \* value returned by runLoadTest
    clients,        \* number of FlightClient objects constructed
    reachable,      \* whether a server answers at the gateway address
    hCall,          \* checkHealth: state of the ListFlights call
    healthy,        \* checkHealth: the local variable `healthy`
    hPromise,       \* checkHealth: state of the promise it returns
    hTimer,         \* checkHealth: state of its setTimeout
    hData,          \* checkHealth: number of 'data' events so far
    hFirst,         \* checkHealth: the first of 'end', 'error', timeout to occur
    rows,           \* the rows argument of queryDataset (options.rows)
    again,          \* position of a second call of runLoadTest on the same tester
    metricsAgain    \* value returned by the second call

healthVars == <<reachable, hCall, healthy, hPromise, hTimer, hData, hFirst>>

moreVars == <<rows, again, metricsAgain>>

vars == <<cmd, mainPc, now, mq, totalRequests, tenants, concurrency, lpc, i,
          pending, results, req, reactions, race, allLeft, startTime, metrics,
          clients, healthVars, moreVars>>

Requests == 1..MaxRequests

\* the rows argument: null when the option is absent, else a number
NoRows == [given |-> FALSE, value |-> 0]
RowsOptions == {NoRows} \cup {[given |-> TRUE, value |-> v] : v \in {-1, 0, 2}}
NoResult == [status |-> "none"]
NoMetrics == [total_requests |-> -1]

IdleRequest ==
    [st |-> "idle", tenant |-> Undefined, info |-> "none", get |-> "none",
     getRows |-> 0, getBytes |-> 0, getMsg |-> "", stream |-> "none",
     chunks |-> <<>>, received |-> <<>>, path |-> <<>>, startTotal |-> 0, startMeta |-> 0,
     metaLatency |-> 0, startTransfer |-> 0, nInfo |-> 0, nGet |-> 0,
     result |-> NoResult, wrapper |-> "none"]

(***************************************************************************)
(* Helpers on sequences.                                                   *)
(***************************************************************************)
Range(s) == {s[j] : j \in 1..Len(s)}

Remove(s, e) == SelectSeq(s, LAMBDA y : y # e)

RECURSIVE SumSeq(_)
SumSeq(s) == IF s = <<>> THEN 0 ELSE Head(s) + SumSeq(Tail(s))

Job(t, k, r) == [t |-> t, k |-> k, r |-> r]

(***************************************************************************)
(* FlightClient.getFlightInfo, the part that runs before the call is sent. *)
(* Buffer.from(undefined) throws inside the promise executor, so the       *)
(* promise is rejected and GetFlightInfo is not called.                    *)
(***************************************************************************)
\* if (rows): null, 0 and NaN are falsy, every other number is truthy
Truthy(n) == n.given /\ n.value # 0

\* the path of the descriptor: Buffer.from(tenantId), Buffer.from(datasetName)
\* and, if (rows), Buffer.from(String(rows)); a segment is written as a record
DescriptorPath(tenantId, n) ==
    <<[seg |-> "tenant", id |-> tenantId], [seg |-> "dataset", id |-> 0]>>
        \o (IF Truthy(n) THEN <<[seg |-> "rows", id |-> n.value]>> ELSE <<>>)

getFlightInfo(r, tenantId) ==
    IF tenantId = Undefined
    THEN [r EXCEPT !.info = "typeErr"]
    ELSE [r EXCEPT !.info = "pending", !.nInfo = @ + 1,
                   !.path = DescriptorPath(tenantId, rows)]

(***************************************************************************)
(* FlightClient.queryDataset up to its first await.                        *)
(***************************************************************************)
\* startTotal is read first, startMeta a time d later
queryDatasetStart(r, tenantId, d) ==
    getFlightInfo([r EXCEPT !.st = "info", !.tenant = tenantId,
                            !.startTotal = now, !.startMeta = now + d],
                  tenantId)

\* a catch block that also reports the time since the start of the query as
\* the latency of the transfer
ErrorResultWithTransfer(r, msg, d) ==
    [status |-> "Error", tenant_id |-> r.tenant, dataset |-> "sales",
     error |-> msg, transfer_latency_ms |-> now + d - r.startTotal,
     total_latency_ms |-> now + d - r.startTotal]

\* a catch block that also reports the latency of the metadata phase
ErrorResultWithMeta(r, msg, d) ==
    [status |-> "Error", tenant_id |-> r.tenant, dataset |-> "sales",
     error |-> msg, metadata_latency_ms |-> r.metaLatency,
     total_latency_ms |-> now + d - r.startTotal]

\* the object returned by the catch block of queryDataset, which reads the
\* clock a time d after the continuation started
ErrorResult(r, msg, d) ==
    [status |-> "Error", tenant_id |-> r.tenant, dataset |-> "sales",
     error |-> msg, total_latency_ms |-> now + d - r.startTotal]

\* a total latency measured from the start of the transfer
SuccessResultFromTransfer(r, d) ==
    [status |-> "Success", tenant_id |-> r.tenant, dataset |-> "sales",
     rows |-> r.getRows, bytes |-> r.getBytes,
     metadata_latency_ms |-> r.metaLatency,
     transfer_latency_ms |-> now - r.startTransfer,
     total_latency_ms |-> now + d - r.startTransfer]

\* the object returned by the try block of queryDataset: transferLatency is
\* read first, totalLatency a time d later
SuccessResult(r, d) ==
    [status |-> "Success", tenant_id |-> r.tenant, dataset |-> "sales",
     rows |-> r.getRows, bytes |-> r.getBytes,
     metadata_latency_ms |-> r.metaLatency,
     transfer_latency_ms |-> now - r.startTransfer,
     total_latency_ms |-> now + d - r.startTotal]

\* queryDataset has returned: its locals and the closure of doGet are gone
Returned(r, res) ==
    [IdleRequest EXCEPT !.st = "done", !.tenant = r.tenant, !.info = r.info,
                        !.get = r.get, !.stream = r.stream, !.nInfo = r.nInfo,
                        !.nGet = r.nGet, !.received = r.received,
                        !.path = r.path,
                        !.wrapper = r.wrapper, !.result = res]

\* a query that does not look at the endpoint list
NoEndpointsNever(info) == FALSE

\* !info.endpoint || info.endpoint.length === 0
NoEndpoints(info) == info = "empty"

\* err.message of a rejected getFlightInfo promise
InfoMsg(info) == IF info = "typeErr" THEN MsgBadTenant ELSE MsgTransport

(***************************************************************************)
(* FlightClient.doGet, the part that runs when it is called: the DoGet     *)
(* call is sent and the handlers are attached.                             *)
(***************************************************************************)
doGet(r) ==
    [r EXCEPT !.get = "pending", !.stream = "open", !.nGet = @ + 1]

(***************************************************************************)
(* The 'end' handler of doGet: decodes every chunk and sums numRows and    *)
(* the chunk lengths; a chunk that does not decode makes tableFromIPC      *)
(* throw, which rejects the promise.                                       *)
(***************************************************************************)
RECURSIVE SumRows(_)
SumRows(chunks) ==
    IF chunks = <<>> THEN 0 ELSE Head(chunks).numRows + SumRows(Tail(chunks))

RECURSIVE SumBytes(_)
SumBytes(chunks) ==
    IF chunks = <<>> THEN 0 ELSE Head(chunks).len + SumBytes(Tail(chunks))

AllDecode(chunks) == \A j \in 1..Len(chunks) : chunks[j].ok

\* resolve and reject of the promise of doGet: only the first call settles it
resolve(r, totalRows, totalBytes) ==
    IF r.get = "pending"
    THEN [r EXCEPT !.get = "ok", !.getRows = totalRows, !.getBytes = totalBytes]
    ELSE r

reject(r, msg) ==
    IF r.get = "pending" THEN [r EXCEPT !.get = "err", !.getMsg = msg] ELSE r

\* an 'end' handler that skips the chunks that do not decode
onEndSkipBad(r) ==
    LET good == SelectSeq(r.chunks, LAMBDA c : c.ok)
    IN resolve(r, SumRows(good), SumBytes(good))

onEnd(r) ==
    IF r.chunks = <<>>
    THEN resolve(r, 0, 0)
    ELSE IF AllDecode(r.chunks)
         THEN resolve(r, SumRows(r.chunks), SumBytes(r.chunks))
         ELSE reject(r, MsgDecode)

\* the 'data' handler of doGet
onData(r, flightData) ==
    IF flightData.len > 0
    THEN [r EXCEPT !.chunks = Append(@, flightData),
                   !.received = Append(@, flightData)]
    ELSE [r EXCEPT !.received = Append(@, flightData)]

\* the 'error' handler of doGet
onError(r) == reject(r, MsgStream)

(***************************************************************************)
(* What awaits the promise of queryDataset for request k: singleRequest    *)
(* in a load test, cmdQuery for the single query.                          *)
(***************************************************************************)
AfterQuery(k) == IF cmd = "load-test" THEN <<Job("S", k, 0)>> ELSE <<Job("C", k, 0)>>

(***************************************************************************)
(* Macrotasks: callbacks of the gRPC layer.  They run when no synchronous  *)
(* code is running and the microtask queue is empty.                       *)
(***************************************************************************)
Idle == mainPc # "exit" /\ lpc # "loop" /\ mq = <<>>

\* the bounds of the environment
ChunkBound == IF cmd = "query" THEN MaxChunks ELSE MaxLoadChunks
ClockBound == IF cmd = "query" THEN MaxClock ELSE MaxLoadClock

\* the time that can pass between two readings of performance.now() in one
\* run of synchronous code; in a load test the readings are taken equal
Elapsed ==
    IF cmd = "query"
    THEN {d \in 0..MaxElapsed : now + d <= ClockBound}
    ELSE {0}

\* the callback passed to client.GetFlightInfo
GetFlightInfoCallback(k) ==
    /\ Idle
    /\ req[k].info = "pending"
    /\ \E reply \in InfoReplies :
          req' = [req EXCEPT ![k].info = reply]
    /\ mq' = <<Job("Q1", k, 0)>>
    /\ UNCHANGED <<moreVars, healthVars, cmd, mainPc, now, totalRequests, tenants, concurrency, lpc,
                   i, pending, results, reactions, race, allLeft, startTime,
                   metrics, clients>>

\* call.on('data')
DoGetData(k) ==
    /\ Idle
    /\ req[k].stream = "open"
    /\ Len(req[k].received) < ChunkBound
    /\ \E flightData \in ChunkKinds :
          req' = [req EXCEPT ![k] = onData(@, flightData)]
    /\ UNCHANGED <<moreVars, healthVars, cmd, mainPc, now, mq, totalRequests, tenants, concurrency,
                   lpc, i, pending, results, reactions, race, allLeft,
                   startTime, metrics, clients>>

\* Status of the call received.  An OK status pushes the end of the stream
\* and 'end' is emitted; any other status emits 'error' first and 'end'
\* right after it, before any other callback runs.
DoGetEnd(k) ==
    /\ Idle
    /\ req[k].stream = "open"
    /\ req' = [req EXCEPT ![k] = [onEnd(@) EXCEPT !.stream = "end"]]
    /\ mq' = <<Job("Q2", k, 0)>>
    /\ UNCHANGED <<moreVars, healthVars, cmd, mainPc, now, totalRequests, tenants, concurrency, lpc,
                   i, pending, results, reactions, race, allLeft, startTime,
                   metrics, clients>>

DoGetError(k) ==
    /\ Idle
    /\ req[k].stream = "open"
    /\ req' = [req EXCEPT ![k] = [onEnd(onError(@)) EXCEPT !.stream = "failed"]]
    /\ mq' = <<Job("Q2", k, 0)>>
    /\ UNCHANGED <<moreVars, healthVars, cmd, mainPc, now, totalRequests, tenants, concurrency, lpc,
                   i, pending, results, reactions, race, allLeft, startTime,
                   metrics, clients>>

\* time passes between callbacks
Tick ==
    /\ Idle
    /\ now < ClockBound
    /\ now' = now + 1
    /\ UNCHANGED <<moreVars, healthVars, cmd, mainPc, mq, totalRequests, tenants, concurrency, lpc,
                   i, pending, results, req, reactions, race, allLeft,
                   startTime, metrics, clients>>

(***************************************************************************)
(* Microtasks of queryDataset.                                             *)
(***************************************************************************)
Running(t, k) ==
    /\ mainPc # "exit"
    /\ lpc # "loop"
    /\ mq # <<>>
    /\ Head(mq).t = t
    /\ Head(mq).k = k

\* queryDataset resumes after `await this.getFlightInfo(...)`
queryDatasetAfterInfo(k) ==
    /\ Running("Q1", k)
    /\ \E d \in Elapsed :
       LET r == req[k] IN
       /\ now' = now + d
       /\ IF r.info \in {"err", "typeErr"}
          THEN /\ req' = [req EXCEPT ![k] =
                            Returned(r, ErrorResult(r, InfoMsg(r.info), d))]
               /\ mq' = Tail(mq) \o AfterQuery(k)
          ELSE LET r1 == [r EXCEPT !.metaLatency = now - r.startMeta] IN
               IF NoEndpoints(r.info)
               THEN /\ req' = [req EXCEPT ![k] =
                                 Returned(r1, ErrorResult(r1, MsgNoEndpoints, d))]
                    /\ mq' = Tail(mq) \o AfterQuery(k)
               ELSE LET r2 == doGet([r1 EXCEPT !.st = "get",
                                               !.startTransfer = now + d]) IN
                    /\ req' = [req EXCEPT ![k] = r2]
                    /\ mq' = Tail(mq)
    /\ UNCHANGED <<moreVars, healthVars, cmd, mainPc, totalRequests, tenants, concurrency, lpc,
                   i, pending, results, reactions, race, allLeft, startTime,
                   metrics, clients>>

\* queryDataset resumes after `await this.doGet(...)`
queryDatasetAfterGet(k) ==
    /\ Running("Q2", k)
    /\ \E d \in Elapsed :
       LET r == req[k] IN
       /\ now' = now + d
       /\ req' = [req EXCEPT ![k] = Returned(r, IF r.get = "ok"
                                                   THEN SuccessResult(r, d)
                                                   ELSE ErrorResult(r, r.getMsg, d))]
    /\ mq' = Tail(mq) \o AfterQuery(k)
    /\ UNCHANGED <<moreVars, healthVars, cmd, mainPc, totalRequests, tenants, concurrency, lpc,
                   i, pending, results, reactions, race, allLeft, startTime,
                   metrics, clients>>

(***************************************************************************)
(* LoadTester.calculateMetrics.  Quotients are kept as fractions: num/den. *)
(***************************************************************************)
Fraction(n, d) == [num |-> n, den |-> d]

RECURSIVE Insert(_, _)
Insert(x, s) ==
    IF s = <<>> THEN <<x>>
    ELSE IF x <= Head(s) THEN <<x>> \o s
         ELSE <<Head(s)>> \o Insert(x, Tail(s))

\* Array.prototype.sort((a, b) => a - b)
RECURSIVE SortAsc(_)
SortAsc(s) == IF s = <<>> THEN <<>> ELSE Insert(Head(s), SortAsc(Tail(s)))

\* r.rows || 0 and r.bytes || 0
RowsOf(r) == IF "rows" \in DOMAIN r THEN r.rows ELSE 0
BytesOf(r) == IF "bytes" \in DOMAIN r THEN r.bytes ELSE 0

\* a filter that keeps every result
SuccessfulAll(res) == res

\* this.results.filter(r => r.status === 'Success')
Successful(res) == SelectSeq(res, LAMBDA r : r.status = "Success")

\* an index that is always the last one
P95IndexLast(n) == n - 1

\* Math.floor(latencies.length * 0.95); the product by the double 0.95 rounds
\* to the integer n * 95 / 100 whenever that quotient is an integer
P95Index(n) == (n * 95) \div 100

calculateMetrics(res, duration) ==
    LET successful == Successful(res)
        failed == SelectSeq(res, LAMBDA r : r.status # "Success")
        latencies == SortAsc([j \in 1..Len(successful) |->
                                successful[j].total_latency_ms])
        totalRows == SumSeq([j \in 1..Len(successful) |-> RowsOf(successful[j])])
        totalBytes == SumSeq([j \in 1..Len(successful) |-> BytesOf(successful[j])])
        avgLatency == IF Len(latencies) > 0
                      THEN Fraction(SumSeq(latencies), Len(latencies))
                      ELSE Fraction(0, 1)
        p95Latency == IF Len(latencies) > 0
                      THEN latencies[P95Index(Len(latencies)) + 1]
                      ELSE 0
    IN [total_requests |-> Len(res),
        successful |-> Len(successful),
        failed |-> Len(failed),
        total_rows |-> totalRows,
        total_bytes |-> totalBytes,
        duration_s |-> Fraction(duration, 1000),
        throughput |-> Fraction(Len(res) * 1000, duration),
        avg_latency_ms |-> avgLatency,
        p95_latency_ms |-> p95Latency]

(***************************************************************************)
(* LoadTester.singleRequest up to its await: a new FlightClient, then      *)
(* queryDataset.                                                           *)
(***************************************************************************)
singleRequest(r, tenantId) ==
    queryDatasetStart([r EXCEPT !.wrapper = "pending"], tenantId, 0)

\* an assignment by the number of results collected so far
TenantOfCompleted(idx) ==
    IF Len(tenants) = 0
    THEN Undefined
    ELSE tenants[(Len(results) % Len(tenants)) + 1]

\* tenants[i % tenants.length]
TenantOf(idx) ==
    IF Len(tenants) = 0 THEN Undefined ELSE tenants[(idx % Len(tenants)) + 1]

(***************************************************************************)
(* Promise.race(pending) and Promise.all(allPromises): a reaction is       *)
(* registered on every promise of the collection that is still pending,    *)
(* and queued at once for every promise that is already fulfilled.         *)
(***************************************************************************)
Register(ps, rq, rs, t, n) ==
    [k \in Requests |->
        IF k \in Range(ps) /\ rq[k].wrapper = "pending"
        THEN Append(rs[k], Job(t, k, n))
        ELSE rs[k]]

QueueSettled(ps, rq, t, n) ==
    LET settled == SelectSeq(ps, LAMBDA k : rq[k].wrapper = "fulfilled")
    IN [j \in 1..Len(settled) |-> Job(t, settled[j], n)]

(***************************************************************************)
(* LoadTester.runLoadTest.                                                 *)
(***************************************************************************)
\* a cap test that is off by one: pending.size > this.concurrency
AtCapOffByOne(size) == size > concurrency

\* pending.size >= this.concurrency
AtCap(size) == size >= concurrency

\* a join that is over with the first promise fulfilled
AllDoneFirst(left) == left = totalRequests

\* Promise.all is fulfilled by the reaction that finds no other promise left
AllDone(left) == left = 1

\* cmdLoadTest calls tester.runLoadTest: lines before the loop
runLoadTest ==
    /\ cmd = "load-test"
    /\ mainPc = "start"
    /\ mainPc' = "await"
    /\ startTime' = now
    /\ results' = <<>>
    /\ pending' = <<>>
    /\ i' = 0
    /\ lpc' = "loop"
    /\ UNCHANGED <<moreVars, healthVars, cmd, now, mq, totalRequests, tenants, concurrency, req,
                   reactions, race, allLeft, metrics, clients>>

\* one iteration of the for loop, up to the await of Promise.race
LoopIteration ==
    /\ lpc = "loop"
    /\ i < totalRequests
    /\ LET k == i + 1
           tenant == TenantOf(i)
           rq == [req EXCEPT ![k] = singleRequest(@, tenant)]
           pend == Append(pending, k)
           rs == [reactions EXCEPT ![k] = <<Job("F", k, 0)>>]
           started == IF rq[k].info = "typeErr" THEN <<Job("Q1", k, 0)>> ELSE <<>>
       IN /\ req' = rq
          /\ clients' = clients + 1
          /\ pending' = pend
          /\ IF AtCap(Len(pend))
             THEN /\ race' = [n |-> race.n + 1, done |-> FALSE]
                  /\ reactions' = Register(pend, rq, rs, "R", race.n + 1)
                  /\ mq' = mq \o started \o QueueSettled(pend, rq, "R", race.n + 1)
                  /\ lpc' = "race"
                  /\ UNCHANGED i
             ELSE /\ reactions' = rs
                  /\ mq' = mq \o started
                  /\ i' = i + 1
                  /\ UNCHANGED <<race, lpc>>
    /\ UNCHANGED <<moreVars, healthVars, cmd, mainPc, now, totalRequests, tenants, concurrency,
                   results, allLeft, startTime, metrics>>

\* the loop is over: await Promise.all(allPromises)
LoopExit ==
    /\ lpc = "loop"
    /\ i >= totalRequests
    /\ LET all == [j \in 1..totalRequests |-> j] IN
       /\ reactions' = Register(all, req, reactions, "A", 0)
       /\ mq' = mq \o QueueSettled(all, req, "A", 0)
                   \o (IF totalRequests = 0 THEN <<Job("J", 0, 0)>> ELSE <<>>)
    /\ allLeft' = totalRequests
    /\ lpc' = "join"
    /\ UNCHANGED <<moreVars, healthVars, cmd, mainPc, now, totalRequests, tenants, concurrency, i,
                   pending, results, req, race, startTime, metrics, clients>>

\* singleRequest resumes after `await client.queryDataset(...)` and returns
singleRequestReturn(k) ==
    /\ Running("S", k)
    /\ mq' = Tail(mq) \o <<Job("W", k, 0)>>
    /\ UNCHANGED <<moreVars, healthVars, cmd, mainPc, now, totalRequests, tenants, concurrency, lpc,
                   i, pending, results, req, reactions, race, allLeft,
                   startTime, metrics, clients>>

\* a push that keeps only the results of successful requests
PushedIfSuccess(res, result) ==
    IF result.status = "Success" THEN Append(res, result) ELSE res

\* an insertion at the front of the list
PushedFront(res, result) == <<result>> \o res

\* this.results.push(result)
Pushed(res, result) == Append(res, result)

\* the async wrapper of a request resumes: this.results.push(result); return
WrapperPush(k) ==
    /\ Running("W", k)
    /\ results' = Pushed(results, req[k].result)
    /\ req' = [req EXCEPT ![k] = [IdleRequest EXCEPT !.st = "done",
                                                     !.wrapper = "fulfilled"]]
    /\ mq' = Tail(mq) \o reactions[k]
    /\ reactions' = [reactions EXCEPT ![k] = <<>>]
    /\ UNCHANGED <<moreVars, healthVars, cmd, mainPc, now, totalRequests, tenants, concurrency, lpc,
                   i, pending, race, allLeft, startTime, metrics, clients>>

\* promise.finally(() => pending.delete(promise))
FinallyDelete(k) ==
    /\ Running("F", k)
    /\ pending' = Remove(pending, k)
    /\ mq' = Tail(mq)
    /\ UNCHANGED <<moreVars, healthVars, cmd, mainPc, now, totalRequests, tenants, concurrency, lpc,
                   i, results, req, reactions, race, allLeft, startTime,
                   metrics, clients>>

\* a wait that is over only when the oldest pending request completes
RaceSettlesOldest(k, n) ==
    n = race.n /\ ~race.done /\ \A p \in Range(pending) : k < p

\* a race that no promise settles
RaceSettlesNever(k, n) == FALSE

\* the reaction of Promise.race on promise k: the first one resolves the race,
\* which queues the continuation of runLoadTest
RaceSettles(k, n) ==
    n = race.n /\ ~race.done

RaceReaction(k) ==
    /\ Running("R", k)
    /\ IF RaceSettles(k, Head(mq).r)
       THEN /\ race' = [race EXCEPT !.done = TRUE]
            /\ mq' = Tail(mq) \o <<Job("L", 0, 0)>>
       ELSE /\ mq' = Tail(mq)
            /\ UNCHANGED race
    /\ UNCHANGED <<moreVars, healthVars, cmd, mainPc, now, totalRequests, tenants, concurrency, lpc,
                   i, pending, results, req, reactions, allLeft, startTime,
                   metrics, clients>>

\* runLoadTest resumes after `await Promise.race(pending)`: i++
LoopResume ==
    /\ Running("L", 0)
    /\ lpc = "race"
    /\ lpc' = "loop"
    /\ i' = i + 1
    /\ mq' = Tail(mq)
    /\ UNCHANGED <<moreVars, healthVars, cmd, mainPc, now, totalRequests, tenants, concurrency,
                   pending, results, req, reactions, race, allLeft, startTime,
                   metrics, clients>>

\* the reaction of Promise.all on promise k
AllReaction(k) ==
    /\ Running("A", k)
    /\ allLeft' = allLeft - 1
    /\ mq' = Tail(mq) \o (IF AllDone(allLeft) THEN <<Job("J", 0, 0)>> ELSE <<>>)
    /\ UNCHANGED <<moreVars, healthVars, cmd, mainPc, now, totalRequests, tenants, concurrency, lpc,
                   i, pending, results, req, reactions, race, startTime,
                   metrics, clients>>

\* runLoadTest resumes after `await Promise.all(allPromises)` and returns
runLoadTestReturn ==
    /\ Running("J", 0)
    /\ lpc = "join"
    /\ lpc' = "done"
    /\ metrics' = calculateMetrics(results, now - startTime)
    /\ mq' = Tail(mq) \o <<Job("M", 0, 0)>>
    /\ UNCHANGED <<moreVars, healthVars, cmd, mainPc, now, totalRequests, tenants, concurrency, i,
                   pending, results, req, reactions, race, allLeft, startTime,
                   clients>>

\* cmdLoadTest resumes after `await tester.runLoadTest(...)`
cmdLoadTestDone ==
    /\ Running("M", 0)
    /\ mainPc' = "done"
    /\ mq' = Tail(mq)
    /\ UNCHANGED <<moreVars, healthVars, cmd, now, totalRequests, tenants, concurrency, lpc, i,
                   pending, results, req, reactions, race, allLeft, startTime,
                   metrics, clients>>

(***************************************************************************)
(* FlightClient.checkHealth.                                               *)
(***************************************************************************)
\* a resolve whose last call wins
resolveHealthLast(p, value) ==
    IF p \in {"pending", "true", "false"}
    THEN (IF value THEN "true" ELSE "false")
    ELSE p

\* resolve of the promise of checkHealth: only the first call settles it
resolveHealth(p, value) ==
    IF p = "pending" THEN (IF value THEN "true" ELSE "false") ELSE p

\* the executor of the promise: ListFlights is called, the handlers are
\* attached and the timer is armed
checkHealth ==
    /\ hCall' = "open"
    /\ healthy' = FALSE
    /\ hPromise' = "pending"
    /\ hTimer' = "armed"

\* what the first settlement of the promise queues: cmdQuery awaits it
HealthJobs(p) == IF hPromise = "pending" /\ p # "pending" THEN <<Job("H", 0, 0)>> ELSE <<>>

First(e) == IF hFirst = "none" THEN e ELSE hFirst

\* call.on('data', () => { healthy = true; })
HealthData ==
    /\ Idle
    /\ hCall = "open"
    /\ reachable
    /\ hData < MaxFlights
    /\ hData' = hData + 1
    /\ healthy' = TRUE
    /\ UNCHANGED <<moreVars, cmd, mainPc, now, mq, totalRequests, tenants, concurrency,
                   lpc, i, pending, results, req, reactions, race, allLeft,
                   startTime, metrics, clients, reachable, hCall, hPromise,
                   hTimer, hFirst>>

\* an 'end' handler that reports the liveness observed so far
EndValueObserved(h) == h

\* the value of the 'end' handler, resolve(true), whatever `healthy` is
EndValue(h) == TRUE

\* call.on('end', () => resolve(true)), after an OK status of the server
HealthEnd ==
    /\ Idle
    /\ hCall = "open"
    /\ reachable
    /\ hCall' = "closed"
    /\ hPromise' = resolveHealth(hPromise, EndValue(healthy))
    /\ mq' = HealthJobs(hPromise')
    /\ hFirst' = First("end")
    /\ UNCHANGED <<moreVars, cmd, mainPc, now, totalRequests, tenants, concurrency, lpc,
                   i, pending, results, req, reactions, race, allLeft,
                   startTime, metrics, clients, reachable, healthy, hTimer,
                   hData>>

\* call.on('error', () => resolve(false)), after any other status, also the
\* CANCELLED status that follows call.cancel(); 'end' is emitted right after
HealthError ==
    /\ Idle
    /\ hCall \in {"open", "cancelled"}
    /\ hCall' = "closed"
    /\ hPromise' = resolveHealth(resolveHealth(hPromise, FALSE), TRUE)
    /\ mq' = HealthJobs(hPromise')
    /\ hFirst' = First("error")
    /\ UNCHANGED <<moreVars, cmd, mainPc, now, totalRequests, tenants, concurrency, lpc,
                   i, pending, results, req, reactions, race, allLeft,
                   startTime, metrics, clients, reachable, healthy, hTimer,
                   hData>>

\* a timeout that always reports the server as down
TimeoutValueFalse(h) == FALSE

\* the value the timeout resolves with: resolve(healthy)
TimeoutValue(h) == h

\* the callback of setTimeout: call.cancel(); resolve(healthy)
HealthTimeout ==
    /\ Idle
    /\ hTimer = "armed"
    /\ hTimer' = "fired"
    /\ hCall' = IF hCall = "open" THEN "cancelled" ELSE hCall
    /\ hPromise' = resolveHealth(hPromise, TimeoutValue(healthy))
    /\ mq' = HealthJobs(hPromise')
    /\ hFirst' = First("timeout")
    /\ UNCHANGED <<moreVars, cmd, mainPc, now, totalRequests, tenants, concurrency, lpc,
                   i, pending, results, req, reactions, race, allLeft,
                   startTime, metrics, clients, reachable, healthy, hData>>

(***************************************************************************)
(* cmdQuery of the entry point.                                            *)
(***************************************************************************)
\* the tenant argument of the query command
QueryTenant == 1

\* new FlightClient(options.gateway); await client.checkHealth()
cmdQuery ==
    /\ cmd = "query"
    /\ mainPc = "start"
    /\ mainPc' = "health"
    /\ clients' = clients + 1
    /\ checkHealth
    /\ UNCHANGED <<moreVars, cmd, now, mq, totalRequests, tenants, concurrency, lpc, i,
                   pending, results, req, reactions, race, allLeft, startTime,
                   metrics, reachable, hData, hFirst>>

\* cmdQuery resumes with the value of checkHealth: process.exit(1) when it
\* is false, else client.queryDataset(tenant, dataset, options.rows)
cmdQueryAfterHealth ==
    /\ Running("H", 0)
    /\ mainPc = "health"
    /\ IF hPromise = "true"
       THEN /\ mainPc' = "query"
            /\ \E d \in Elapsed :
                  /\ req' = [req EXCEPT ![1] = queryDatasetStart(@, QueryTenant, d)]
                  /\ now' = now + d
       ELSE /\ mainPc' = "exit"
            /\ UNCHANGED <<req, now>>
    /\ mq' = Tail(mq)
    /\ UNCHANGED <<moreVars, healthVars, cmd, totalRequests, tenants, concurrency,
                   lpc, i, pending, results, reactions, race, allLeft,
                   startTime, metrics, clients>>

\* cmdQuery resumes with the QueryResult and prints it
cmdQueryDone ==
    /\ Running("C", 1)
    /\ mainPc = "query"
    /\ mainPc' = "done"
    /\ mq' = Tail(mq)
    /\ UNCHANGED <<moreVars, healthVars, cmd, now, totalRequests, tenants, concurrency,
                   lpc, i, pending, results, req, reactions, race, allLeft,
                   startTime, metrics, clients>>

(***************************************************************************)
(* The program: one of the two commands.                                   *)
(***************************************************************************)
InitRest ==
    /\ mainPc = "start"
    /\ now = 0
    /\ mq = <<>>
    /\ lpc = "idle"
    /\ i = 0
    /\ pending = <<>>
    /\ req = [k \in Requests |-> IdleRequest]
    /\ reactions = [k \in Requests |-> <<>>]
    /\ race = [n |-> 0, done |-> FALSE]
    /\ allLeft = 0
    /\ startTime = 0
    /\ metrics = NoMetrics
    /\ clients = 0
    /\ hCall = "none"
    /\ healthy = FALSE
    /\ hPromise = "none"
    /\ hTimer = "none"
    /\ hData = 0
    /\ hFirst = "none"
    /\ again = "none"
    /\ metricsAgain = NoMetrics

\* a new LoadTester: this.results = []
InitCommon ==
    /\ results = <<>>
    /\ InitRest

\* node index.js load-test -r totalRequests -c concurrency -t |tenants|,
\* with no tenant or with MaxTenants tenants
InitLoad ==
    /\ cmd = "load-test"
    /\ totalRequests \in 0..MaxRequests
    /\ \E n \in {0, MaxTenants} : tenants = TenantList(n)
    /\ concurrency \in 1..MaxConcurrency
    /\ reachable = TRUE
    /\ rows = NoRows
    /\ InitCommon

\* node index.js query tenant dataset
InitQuery ==
    /\ cmd = "query"
    /\ totalRequests = 0
    /\ tenants = <<>>
    /\ concurrency = 1
    /\ reachable \in BOOLEAN
    /\ rows \in RowsOptions
    /\ InitCommon

QueryStep ==
    \/ Tick
    \/ \E k \in Requests : GetFlightInfoCallback(k)
    \/ \E k \in Requests : DoGetData(k)
    \/ \E k \in Requests : DoGetEnd(k)
    \/ \E k \in Requests : DoGetError(k)
    \/ \E k \in Requests : queryDatasetAfterInfo(k)
    \/ \E k \in Requests : queryDatasetAfterGet(k)

NextLoad ==
    \/ runLoadTest
    \/ LoopIteration
    \/ LoopExit
    \/ LoopResume
    \/ runLoadTestReturn
    \/ cmdLoadTestDone
    \/ \E k \in Requests : singleRequestReturn(k)
    \/ \E k \in Requests : WrapperPush(k)
    \/ \E k \in Requests : FinallyDelete(k)
    \/ \E k \in Requests : RaceReaction(k)
    \/ \E k \in Requests : AllReaction(k)
    \/ QueryStep

NextQuery ==
    \/ cmdQuery
    \/ HealthData
    \/ HealthEnd
    \/ HealthError
    \/ HealthTimeout
    \/ cmdQueryAfterHealth
    \/ cmdQueryDone
    \/ QueryStep

(***************************************************************************)
(* calculateMetrics on its own: the results of a finished run are given.   *)
(***************************************************************************)
MaxResults == 3       \* longest list of results drawn
MaxLatency == 3       \* largest total latency drawn, in tens of milliseconds

\* QueryResults as queryDataset returns them
SuccessOf(latency) ==
    [status |-> "Success", tenant_id |-> 1, dataset |-> "sales", rows |-> 1,
     bytes |-> 2, metadata_latency_ms |-> 0, transfer_latency_ms |-> 0,
     total_latency_ms |-> latency]

ErrorOf(latency) ==
    [status |-> "Error", tenant_id |-> 1, dataset |-> "sales",
     error |-> MsgTransport, total_latency_ms |-> latency]

\* a Success result without the fields rows and bytes
BareSuccess ==
    [status |-> "Success", tenant_id |-> 1, dataset |-> "sales",
     total_latency_ms |-> 20]

MetricResults ==
    {SuccessOf(10 * l) : l \in 1..MaxLatency}
        \cup {ErrorOf(10), ErrorOf(10 * MaxLatency), BareSuccess}

\* ten successes with the latencies 10, 20, ..., 100, in the order 100 .. 10
TenSuccesses == [j \in 1..10 |-> SuccessOf(10 * (11 - j))]

\* twenty-one successes with the latencies 1 .. 21, the odd ones first
TwentyOneSuccesses ==
    [j \in 1..21 |-> SuccessOf(IF j <= 11 THEN 2 * j - 1 ELSE 2 * (j - 11))]

InitMetrics ==
    /\ cmd = "metrics"
    /\ totalRequests = 0
    /\ tenants = <<>>
    /\ concurrency = 1
    /\ reachable = TRUE
    /\ rows = NoRows
    /\ \/ \E n \in 0..MaxResults : results \in [1..n -> MetricResults]
       \/ results \in {TenSuccesses, TwentyOneSuccesses}
    /\ InitRest

\* this.calculateMetrics(duration)
calculate ==
    /\ cmd = "metrics"
    /\ mainPc = "start"
    /\ mainPc' = "done"
    /\ \E duration \in {0, 1} : metrics' = calculateMetrics(results, duration)
    /\ UNCHANGED <<moreVars, healthVars, cmd, now, mq, totalRequests, tenants,
                   concurrency, lpc, i, pending, results, req, reactions, race,
                   allLeft, startTime, clients>>

NextMetrics == calculate

SpecMetrics == InitMetrics /\ [][NextMetrics]_vars

(***************************************************************************)
(* A second call of runLoadTest on the same LoadTester, with totalRequests *)
(* = 0, made by a callback while the first call is suspended.              *)
(***************************************************************************)
\* the whole call up to `await Promise.all(allPromises)`: this.results = [],
\* no iteration of the loop, and Promise.all([]) is already fulfilled
runLoadTestAgain ==
    /\ Idle
    /\ cmd = "load-test"
    /\ lpc \in {"race", "join"}
    /\ again = "none"
    /\ again' = "join"
    /\ results' = <<>>
    /\ mq' = <<Job("J2", 0, 0)>>
    /\ UNCHANGED <<healthVars, rows, metricsAgain, cmd, mainPc, now,
                   totalRequests, tenants, concurrency, lpc, i, pending, req,
                   reactions, race, allLeft, startTime, metrics, clients>>

\* the second call resumes after the await and returns
\* this.calculateMetrics(duration); no time has passed since its start
runLoadTestAgainReturn ==
    /\ Running("J2", 0)
    /\ again = "join"
    /\ again' = "done"
    /\ metricsAgain' = calculateMetrics(results, 0)
    /\ mq' = Tail(mq)
    /\ UNCHANGED <<healthVars, rows, cmd, mainPc, now, totalRequests, tenants,
                   concurrency, lpc, i, pending, results, req, reactions, race,
                   allLeft, startTime, metrics, clients>>

NextOverlap ==
    \/ NextLoad
    \/ runLoadTestAgain
    \/ runLoadTestAgainReturn

\* the server answers every call that was sent
Completes ==
    \E k \in Requests :
        GetFlightInfoCallback(k) \/ DoGetEnd(k) \/ DoGetError(k)

\* the event loop runs the synchronous code and every queued job
Continues ==
    \/ runLoadTest
    \/ LoopIteration
    \/ LoopExit
    \/ LoopResume
    \/ runLoadTestReturn
    \/ cmdLoadTestDone
    \/ \E k \in Requests :
          \/ singleRequestReturn(k)
          \/ WrapperPush(k)
          \/ FinallyDelete(k)
          \/ RaceReaction(k)
          \/ AllReaction(k)
          \/ queryDatasetAfterInfo(k)
          \/ queryDatasetAfterGet(k)

\* a load test
Spec == InitLoad /\ [][NextLoad]_vars

\* a single query
\* node index.js load-test, with the shorter runs only
InitLive ==
    /\ InitLoad
    /\ totalRequests <= MaxLiveRequests

\* a load test in which every issued query completes
SpecLoadFair ==
    InitLive /\ [][NextLoad]_vars /\ WF_vars(Completes \/ Continues)

\* a load test during which the tester is asked for a second, empty run
SpecOverlap == InitLive /\ [][NextOverlap]_vars

SpecQuery == InitQuery /\ [][NextQuery]_vars

\* a single query; the timer of checkHealth fires once its delay has elapsed
SpecQueryFair == SpecQuery /\ WF_vars(HealthTimeout)

(***************************************************************************)
(* Properties of runLoadTest.                                              *)
(***************************************************************************)
\* requests whose singleRequest has started and whose wrapper has not completed
Outstanding == {k \in Requests : req[k].wrapper = "pending"}

\* requests issued so far
Issued == {k \in Requests : req[k].st # "idle"}

\* C1: during runLoadTest with a cap C >= 1, the number of requests admitted
\* and not yet completed is at most C in every reachable state.
C1_CapRespected ==
    /\ Cardinality(Outstanding) <= concurrency
    /\ Len(pending) <= concurrency

\* the cap is reached again after a request has completed and a third was issued
C1_Witness ==
    /\ concurrency = 2
    /\ Cardinality(Outstanding) = 2
    /\ results # <<>>
    /\ Cardinality(Issued) = 3

\* C2: runLoadTest returns only after every one of the totalRequests requests
\* has completed and appended its result, and the metrics it returns satisfy
\* total_requests = successful + failed = totalRequests.
C2_ReturnsAfterAll ==
    lpc = "done" =>
        /\ \A k \in 1..totalRequests : req[k].wrapper = "fulfilled"
        /\ Len(results) = totalRequests
        /\ metrics.total_requests = totalRequests
        /\ metrics.successful + metrics.failed = totalRequests

\* a run of three requests has returned with successes and failures
C2_Witness ==
    /\ lpc = "done"
    /\ totalRequests = 3
    /\ metrics.successful >= 1
    /\ metrics.failed >= 1

\* C3: admission is work-conserving.  Whenever runLoadTest is waiting for a
\* callback of the network and requests remain to be issued, it is suspended
\* in the admission wait with exactly C requests outstanding: it never waits
\* with fewer than C outstanding, so it has resumed issuing after the
\* completion of any one outstanding request; and it issues a request only
\* when fewer than C are outstanding.
C3_WorkConserving ==
    /\ (lpc \in {"race", "join", "done"} /\ mq = <<>>
            /\ Cardinality(Issued) < totalRequests)
          => (lpc = "race" /\ Cardinality(Outstanding) = concurrency)
    /\ (lpc = "loop" /\ i < totalRequests)
          => Cardinality(Outstanding) < concurrency

\* the second request completed before the first one, and the third was
\* issued while the first is still outstanding
C3_Witness ==
    /\ concurrency = 2
    /\ lpc = "race"
    /\ mq = <<>>
    /\ req[1].wrapper = "pending"
    /\ req[2].wrapper = "fulfilled"
    /\ req[3].wrapper = "pending"

(***************************************************************************)
(* Properties of queryDataset.                                             *)
(***************************************************************************)
\* the query of request r has met a failure
Failed(r) == r.info \in {"err", "typeErr", "empty"} \/ r.get = "err"

\* C4: a failure of any kind in a request is converted by queryDataset into
\* an Error result, which is appended to the results; no failure makes
\* runLoadTest stop issuing requests or return early.
C4_FailureIsData ==
    /\ [](\A k \in Requests :
            (req[k].st = "done" /\ req[k].wrapper = "pending" /\ Failed(req[k]))
                => /\ req[k].result.status = "Error"
                   /\ "error" \in DOMAIN req[k].result)
    /\ [][\A k \in Requests :
            (req[k].st = "done" /\ req[k].wrapper = "pending"
                /\ req'[k].wrapper = "fulfilled")
                => results' = Append(results, req[k].result)]_vars
    /\ [](lpc = "done" =>
            /\ Cardinality(Issued) = totalRequests
            /\ Len(results) = totalRequests)

\* the first request to complete failed, and the run went on to a success
C4_Witness ==
    /\ lpc = "done"
    /\ totalRequests = 3
    /\ results[1].status = "Error"
    /\ results[3].status = "Success"

\* C5: within one query the resolve phase precedes the fetch phase, each is
\* issued at most once, and when the resolve phase fails the fetch call is
\* never issued: the query returns an Error result with the message of the
\* failure and the time elapsed since its start.
C5_ResolveThenFetch ==
    /\ [](\A k \in Requests :
            /\ req[k].nInfo <= 1
            /\ req[k].nGet <= 1
            /\ req[k].nGet = 1 => (req[k].nInfo = 1 /\ req[k].info = "ok")
            /\ req[k].stream # "none" => req[k].info = "ok"
            /\ req[k].info \in {"err", "empty", "typeErr"} => req[k].nGet = 0)
    /\ [][\A k \in Requests :
            (req[k].st = "info" /\ req[k].info \in {"err", "empty"}
                /\ req'[k] # req[k])
                => /\ req'[k].st = "done"
                   /\ req'[k].nGet = 0
                   /\ req'[k].result.status = "Error"
                   /\ req'[k].result.error =
                        (IF req[k].info = "err" THEN MsgTransport
                                                ELSE MsgNoEndpoints)
                   /\ req'[k].result.total_latency_ms = now' - req[k].startTotal]_vars

\* the resolve phase failed two ticks after the start of the query
C5_Witness ==
    /\ req[1].st = "done"
    /\ req[1].info = "err"
    /\ req[1].nGet = 0
    /\ req[1].result.total_latency_ms = 2

\* C6 as amended: when the resolution call returns an endpoint list of length
\* 0, the query returns a result with status Error and error message
\* "No endpoints returned", with no transfer-phase latency recorded.
C6_NoEndpointsReturned ==
    \A k \in Requests :
        (req[k].st = "done" /\ req[k].info = "empty" /\ req[k].result # NoResult)
            => /\ req[k].result.status = "Error"
               /\ req[k].result.error = "No endpoints returned"
               /\ "transfer_latency_ms" \notin DOMAIN req[k].result

\* the query has returned after an empty endpoint list
C6_Witness ==
    /\ req[1].st = "done"
    /\ req[1].info = "empty"
    /\ req[1].result.status = "Error"
    /\ req[1].nInfo = 1

\* C6 as stated: the error message of the result is "no endpoints".
C6_Original ==
    \A k \in Requests :
        (req[k].st = "done" /\ req[k].info = "empty" /\ req[k].result # NoResult)
            => /\ req[k].result.status = "Error"
               /\ req[k].result.error = "no endpoints"
               /\ "transfer_latency_ms" \notin DOMAIN req[k].result

(***************************************************************************)
(* Properties of doGet.                                                    *)
(***************************************************************************)
\* the sum of field f over the first n messages of s
RECURSIVE Total(_, _, _)
Total(s, f, n) == IF n = 0 THEN 0 ELSE s[n][f] + Total(s, f, n - 1)

\* every message received decodes
Clean(s) == \A j \in 1..Len(s) : s[j].ok

\* C7: doGet settles exactly once.  A stream that ends without an error and
\* whose chunks all decode yields the sums of the rows and of the bytes of all
\* chunks received ({0, 0} when none arrived); a stream that reports an error,
\* or a chunk that fails to decode, yields an error and no counts reach the
\* caller.
C7_FetchAtomic ==
    /\ [](\A k \in Requests :
            LET r == req[k] IN
            /\ (r.st = "get" /\ r.stream \in {"end", "failed"})
                => IF r.stream = "end" /\ Clean(r.received)
                   THEN /\ r.get = "ok"
                        /\ r.getRows = Total(r.received, "numRows", Len(r.received))
                        /\ r.getBytes = Total(r.received, "len", Len(r.received))
                   ELSE r.get = "err"
            /\ (r.st = "done" /\ r.nGet = 1 /\ r.result # NoResult)
                => IF r.stream = "end" /\ Clean(r.received)
                   THEN /\ r.result.status = "Success"
                        /\ r.result.rows = Total(r.received, "numRows", Len(r.received))
                        /\ r.result.bytes = Total(r.received, "len", Len(r.received))
                   ELSE /\ r.result.status = "Error"
                        /\ "rows" \notin DOMAIN r.result
                        /\ "bytes" \notin DOMAIN r.result)
    /\ [][\A k \in Requests :
            (req[k].get \in {"ok", "err"} /\ req'[k].st \in {"get", "done"}
                /\ req'[k].wrapper = req[k].wrapper)
                => req'[k].get = req[k].get]_vars

\* two chunks were received and the query reports the sums of both
C7_Witness ==
    /\ req[1].st = "done"
    /\ Len(req[1].received) = 2
    /\ req[1].result.status = "Success"
    /\ req[1].result.rows = 2
    /\ req[1].result.bytes = 4

(***************************************************************************)
(* Properties of runLoadTest with an empty tenant list.                    *)
(***************************************************************************)
\* C8: runLoadTest called with an empty tenant list signals a failure before
\* any request is issued: no FlightClient is created, no query is started and
\* no metrics are returned.
C8_EmptyTenantsRejected ==
    (cmd = "load-test" /\ tenants = <<>>)
        => /\ clients = 0
           /\ Issued = {}
           /\ metrics = NoMetrics

(***************************************************************************)
(* Properties of checkHealth.                                              *)
(***************************************************************************)
Resolved == hPromise \in {"true", "false"}

\* C9: the health probe always resolves with a boolean and never rejects; it
\* is resolved no later than the moment its timeout fires; it is resolved by
\* the first of the events end, error and timeout, and no later event changes
\* its value.
C9_ProbeResolves ==
    /\ [](hPromise \in {"none", "pending", "true", "false"})
    /\ [](hTimer = "fired" => Resolved)
    /\ []((hFirst # "none") <=> Resolved)
    /\ [][Resolved => hPromise' = hPromise]_vars
    /\ (hPromise = "pending") ~> Resolved

\* the stream ended without data, and the timeout that fired later with
\* healthy = false did not change the value
C9_Witness ==
    /\ hFirst = "end"
    /\ hTimer = "fired"
    /\ ~healthy
    /\ hPromise = "true"

\* C10: the probe is true when a response unit was observed before the stream
\* completed; false when the stream reports an error first; when the timeout
\* fires first it is the liveness observed so far, also after the error event
\* that cancelling the call triggers; against an unreachable server it is
\* false.
C10_ProbeValue ==
    /\ (hFirst = "end" /\ healthy) => hPromise = "true"
    /\ hFirst = "error" => hPromise = "false"
    /\ hFirst = "timeout" => hPromise = (IF hData > 0 THEN "true" ELSE "false")
    /\ (~reachable /\ Resolved) => hPromise = "false"

\* the timeout fired after a response unit, and the error event of the
\* cancelled call has been delivered
C10_Witness ==
    /\ hFirst = "timeout"
    /\ hData > 0
    /\ hCall = "closed"
    /\ hPromise = "true"

(***************************************************************************)
(* Properties of the tenant assignment.                                    *)
(***************************************************************************)
\* C11: for every non-empty tenant list of length N, the request of index
\* idx (the k-th request, k = idx + 1) is issued for tenants[idx mod N],
\* whatever the order in which the earlier requests completed.
C11_TenantRoundRobin ==
    \A k \in Requests :
        (req[k].st # "idle" /\ req[k].wrapper = "pending" /\ Len(tenants) > 0)
            => LET N == Len(tenants)
                   idx == k - 1
               IN /\ req[k].tenant = tenants[(idx - N * (idx \div N)) + 1]
                  /\ req[k].result # NoResult
                        => req[k].result.tenant_id = req[k].tenant

\* the third request is issued for the first tenant again, after the second
\* request completed before the first
C11_Witness ==
    /\ Len(tenants) = 2
    /\ req[3].wrapper = "pending"
    /\ req[3].tenant = tenants[1]
    /\ req[1].wrapper = "pending"
    /\ Len(results) = 1
    /\ results[1].tenant_id = tenants[2]

(***************************************************************************)
(* Properties of calculateMetrics.                                         *)
(***************************************************************************)
\* the positions of the successful results
SuccessAt == {j \in 1..Len(results) : results[j].status = "Success"}

\* the sum of f over a set of positions
RECURSIVE SumAt(_, _)
SumAt(f(_), S) ==
    IF S = {} THEN 0
    ELSE LET j == CHOOSE x \in S : TRUE IN f(j) + SumAt(f, S \ {j})

LatencyAt(j) == results[j].total_latency_ms
RowsAt(j) == IF "rows" \in DOMAIN results[j] THEN results[j].rows ELSE 0
BytesAt(j) == IF "bytes" \in DOMAIN results[j] THEN results[j].bytes ELSE 0

\* C12: the p95 latency is the element of index floor(0.95 * len) of the
\* ascending total latencies of the successful results: at most that many
\* latencies are smaller and more than that many are not larger; it is 0
\* when there is no success, the single element when there is one, and 100
\* for ten successes with the latencies 10, 20, ..., 100.
C12_P95 ==
    mainPc = "done" =>
        LET n == Cardinality(SuccessAt)
            q == CHOOSE x \in 0..n : 100 * x <= 95 * n /\ 100 * (x + 1) > 95 * n
            v == metrics.p95_latency_ms
        IN /\ n = 0 => v = 0
           /\ n >= 1 =>
                /\ q <= n - 1
                /\ \E j \in SuccessAt : LatencyAt(j) = v
                /\ Cardinality({j \in SuccessAt : LatencyAt(j) < v}) <= q
                /\ Cardinality({j \in SuccessAt : LatencyAt(j) <= v}) >= q + 1
           /\ n = 1 => \A j \in SuccessAt : v = LatencyAt(j)
           /\ results = TenSuccesses => v = 100

\* the metrics of the ten successes are computed
C12_Witness ==
    /\ mainPc = "done"
    /\ results = TenSuccesses
    /\ metrics.successful = 10
    /\ metrics.p95_latency_ms = 100

\* C13: total_rows, total_bytes and the average latency are computed over
\* the successful results only: an Error result adds nothing, a missing
\* rows or bytes field counts as 0, the average is the sum of the successful
\* total latencies over their number and 0 when there is none; the values
\* are the same for the results in the reverse order.
C13_SuccessOnly ==
    mainPc = "done" =>
        LET n == Cardinality(SuccessAt)
            reversed == [j \in 1..Len(results) |-> results[Len(results) + 1 - j]]
        IN /\ metrics.successful = n
           /\ metrics.total_rows = SumAt(RowsAt, SuccessAt)
           /\ metrics.total_bytes = SumAt(BytesAt, SuccessAt)
           /\ metrics.avg_latency_ms =
                (IF n = 0 THEN Fraction(0, 1)
                          ELSE Fraction(SumAt(LatencyAt, SuccessAt), n))
           /\ calculateMetrics(reversed, metrics.duration_s.num) = metrics

\* metrics of a list with an Error result that has a latency, a success
\* without rows and bytes, and a success with them
C13_Witness ==
    /\ mainPc = "done"
    /\ results = <<ErrorOf(30), BareSuccess, SuccessOf(10)>>
    /\ metrics.total_rows = 1
    /\ metrics.avg_latency_ms = Fraction(30, 2)

\* C14: in every Success result the total latency is at least the sum of
\* the metadata and the transfer latency, which is at least the larger of
\* the two; in every result the total latency is not negative.
C14_LatencyOrder ==
    \A k \in Requests :
        LET res == req[k].result IN
        /\ res.status = "Success" =>
              /\ res.total_latency_ms
                    >= res.metadata_latency_ms + res.transfer_latency_ms
              /\ res.metadata_latency_ms + res.transfer_latency_ms
                    >= res.metadata_latency_ms
              /\ res.metadata_latency_ms + res.transfer_latency_ms
                    >= res.transfer_latency_ms
        /\ res.status \in {"Success", "Error"} => res.total_latency_ms >= 0

\* a successful query whose total latency is larger than the sum of its
\* phases, the metadata phase having taken time
C14_Witness ==
    /\ cmd = "query"
    /\ req[1].result.status = "Success"
    /\ req[1].result.metadata_latency_ms = 1
    /\ req[1].result.transfer_latency_ms = 0
    /\ req[1].result.total_latency_ms = 2

(***************************************************************************)
(* Properties of the descriptor and of the returned result.                *)
(***************************************************************************)
\* C15: the descriptor path of a query has the row limit as a third segment
\* only when a row limit is given and positive; when it is absent, zero or
\* negative the path is exactly the tenant id and the dataset name.
C15_RowsOnlyWhenPositive ==
    \A k \in Requests :
        req[k].path # <<>> =>
            IF rows.given /\ rows.value > 0
            THEN /\ Len(req[k].path) = 3
                 /\ req[k].path[3] = [seg |-> "rows", id |-> rows.value]
            ELSE req[k].path =
                    <<[seg |-> "tenant", id |-> req[k].tenant],
                      [seg |-> "dataset", id |-> 0]>>

\* C17: a Success result has the fields rows, bytes and the three latencies
\* and no error; an Error result has the error message and the total latency
\* and none of rows, bytes, metadata latency and transfer latency, also when
\* the fetch failed after the metadata phase had succeeded.
C17_FieldsByStatus ==
    \A k \in Requests :
        LET res == req[k].result IN
        /\ res.status = "Success" =>
              DOMAIN res = {"status", "tenant_id", "dataset", "rows", "bytes",
                            "metadata_latency_ms", "transfer_latency_ms",
                            "total_latency_ms"}
        /\ res.status = "Error" =>
              /\ DOMAIN res = {"status", "tenant_id", "dataset", "error",
                               "total_latency_ms"}
              /\ res.error \in {MsgTransport, MsgNoEndpoints, MsgStream,
                                MsgDecode, MsgBadTenant}
        /\ res.status \in {"Success", "Error", "none"}

\* the fetch failed after a metadata phase that succeeded and took time
C17_Witness ==
    /\ cmd = "query"
    /\ req[1].info = "ok"
    /\ req[1].nGet = 1
    /\ req[1].result.status = "Error"
    /\ req[1].result.error = MsgDecode
    /\ req[1].result.total_latency_ms = 2

\* C20: when the ListFlights stream ends normally before the timeout and
\* before any response unit, the probe resolves true.
C20_EndWithoutData ==
    (hFirst = "end" /\ hData = 0) => (hPromise = "true" /\ ~healthy)

\* the stream ended without data and the query went on
C20_Witness ==
    /\ hFirst = "end"
    /\ hData = 0
    /\ hPromise = "true"
    /\ mainPc = "query"

(***************************************************************************)
(* Properties of the collection of results.                                *)
(***************************************************************************)
\* C16: every step of a run leaves the results as they are or appends, at
\* the end, the result of the one request that completes in that step, so
\* the results are in completion order and never get shorter; in every
\* state their number is the number of requests issued minus the number of
\* requests outstanding.
C16_AppendOnCompletion ==
    /\ [](Len(results) = Cardinality(Issued) - Cardinality(Outstanding))
    /\ [][\/ /\ results' = results
             /\ \A k \in Requests :
                   req[k].wrapper = "pending" => req'[k].wrapper = "pending"
          \/ \E k \in Requests :
                /\ req[k].wrapper = "pending"
                /\ req'[k].wrapper = "fulfilled"
                /\ req[k].result.status \in {"Success", "Error"}
                /\ results' = Append(results, req[k].result)
                /\ \A j \in Requests \ {k} : req'[j].wrapper = req[j].wrapper]_vars

\* the second request completed first: the results are in completion order,
\* and the third request is outstanding
C16_Witness ==
    /\ tenants = TenantList(MaxTenants)
    /\ Len(results) = 2
    /\ results[1].tenant_id = 2
    /\ results[2].tenant_id = 1
    /\ Cardinality(Issued) = 3
    /\ Cardinality(Outstanding) = 1

(***************************************************************************)
(* Termination of runLoadTest.                                             *)
(***************************************************************************)
\* C18: when every issued query completes, runLoadTest returns, for every
\* totalRequests >= 0 and every cap >= 1; the admission wait is entered
\* only with at least one request pending, and while the run waits there a
\* request is outstanding or a completion is being processed; with
\* totalRequests = 0 no request is issued and all counts of the metrics
\* are zero.
C18_Terminates ==
    /\ <>(lpc = "done")
    /\ [][(lpc # "race" /\ lpc' = "race") => Len(pending') >= 1]_vars
    /\ [](lpc = "race" => (Outstanding # {} \/ mq # <<>>))
    /\ []((lpc = "done" /\ totalRequests = 0)
            => /\ clients = 0
               /\ Issued = {}
               /\ race.n = 0
               /\ metrics.total_requests = 0
               /\ metrics.successful = 0
               /\ metrics.failed = 0
               /\ metrics.total_rows = 0
               /\ metrics.total_bytes = 0)

\* a run of two requests under the cap 1 has returned after two admission
\* waits
C18_Witness ==
    /\ lpc = "done"
    /\ totalRequests = 2
    /\ concurrency = 1
    /\ race.n = 2
    /\ metrics.total_requests = 2

\* C19: the metrics returned by a call of runLoadTest count exactly the
\* requests that this call issued, also when a second call on the same
\* LoadTester overlaps the first: the first call counts its totalRequests
\* requests, and the second, which issued none, counts none.
C19_RunScoped ==
    /\ lpc = "done" => metrics.total_requests = totalRequests
    /\ again = "done" => metricsAgain.total_requests = 0

====
